---- MODULE Spec2Model ----
(***************************************************************************)
(* Model of the wsqlx transactional execution layer: the three             *)
(* transactional executors (rdbms.DoTx, rdbms.DoTxContext,                 *)
(* sqlxTransaction.DoTx) and the instrumented facade operations (QuerySq,  *)
(* QueryRowSq, ExecSq, QuerySqPagination) over a query executor that is    *)
(* either the live connection or an open transaction.                      *)
(***************************************************************************)
EXTENDS Integers, Sequences, FiniteSets, TLC

VARIABLES
    rdbmsLive,  \* the facade built by NewRdbms over the live connection
    call,       \* the current (or most recent) DoTx/DoTxContext invocation
    past,       \* transaction state and facade left by each earlier invocation
    last,       \* record of the most recent facade operation
    calc,       \* the most recent application of a pagination calculator function
    invs        \* the invocations that run concurrently, one per caller goroutine

vars == <<rdbmsLive, call, past, last, calc, invs>>

(***************************************************************************)
(* Bounds                                                                  *)
(***************************************************************************)
\* Transactions opened in one behaviour.
MaxTx == 2

\* Successive applications of errTracer to one error.
MaxTags == 3

\* Caller goroutines that invoke a transactional executor concurrently.
MaxConc == 2

\* Width in bits at which the signed 64-bit integers of the pagination
\* calculator are modelled (two's complement, wrapping as Go's int64 does).
Int64Bits == 8

\* Largest page, page size and row total the calculator is applied to.
MaxPage == 21
MaxPageSize == 13
MaxTotal == 13

\* The bytes of a statement that defaultSpanNameFN keeps.
SpanNameLen == 15

\* Longest statement the span-naming function is applied to.
MaxStmtLen == 17

\* Handle of the live connection; the k-th transaction opened has handle k.
LiveDB == 0

(***************************************************************************)
(* Errors: Go error values as trees, inspected as errors.Is does.          *)
(***************************************************************************)
Nil == [kind |-> "nil"]
Base(n) == [kind |-> "base", name |-> n]

ErrNoRows == Base("sql: no rows in result set")
ErrTxDone == Base("sql: transaction has already been committed or rolled back")
ErrRecordNoRows == Base("record not found")

errBegin == Base("begin failed")
errCommit == Base("commit failed")
errRollback == Base("rollback failed")
errRender == Base("render failed")
errExec == Base("exec failed")
errScan == Base("scan failed")
errCallback == Base("callback failed")
errClose == Base("close failed")
errBoom == Base("boom")
errCanceled == Base("context canceled")

\* fmt.Errorf("%s:%d: %w", frame.Function, frame.Line, err)
errTracer_dropsChain(err) == [kind |-> "wrap", inner |-> Base("formatted with %v")]
errTracer(err) == [kind |-> "wrap", inner |-> err]

\* errors.Join of two errors: nil operands are discarded, all nil gives nil.
errorsJoin(a, b) ==
    IF a = Nil /\ b = Nil THEN Nil
    ELSE IF a = Nil THEN [kind |-> "join", errs |-> <<b>>]
    ELSE IF b = Nil THEN [kind |-> "join", errs |-> <<a>>]
    ELSE [kind |-> "join", errs |-> <<a, b>>]

\* errors.Is: identity, then Unwrap() error, then Unwrap() []error.
RECURSIVE errorsIs(_, _)
errorsIs(err, target) ==
    \/ err = target
    \/ err.kind = "wrap" /\ errorsIs(err.inner, target)
    \/ err.kind = "join" /\ \E k \in DOMAIN err.errs : errorsIs(err.errs[k], target)

\* The error carries call-site metadata at its outermost layer.
IsTagged(err) == err.kind = "wrap"

(***************************************************************************)
(* Spans                                                                   *)
(***************************************************************************)
NoSpan == [started |-> FALSE]
StartSpan ==
    [started |-> TRUE, ended |-> 0, status |-> "Unset", errs |-> <<>>,
     txOperation |-> "", txStatus |-> "", closeRows |-> ""]

recordError_recordsNoRows(span, err) ==
    IF err # Nil
    THEN [span EXCEPT !.errs = Append(@, err), !.status = "Error"]
    ELSE span
recordError(span, err) ==
    IF err # Nil /\ ~errorsIs(err, ErrNoRows)
    THEN [span EXCEPT !.errs = Append(@, err), !.status = "Error"]
    ELSE span

EndSpan(span) == [span EXCEPT !.ended = @ + 1]

(***************************************************************************)
(* Pagination calculator                                                   *)
(***************************************************************************)
MaxInt64 == 2 ^ (Int64Bits - 1) - 1
MinInt64 == -(2 ^ (Int64Bits - 1))

\* The int64 value of an arithmetic result: Go wraps on overflow.
int64(x) == ((x - MinInt64) % (2 ^ Int64Bits)) + MinInt64

\* The uint64 value of an int64: the same bits read as unsigned.
uint64(x) == x % (2 ^ Int64Bits)

ZeroOutput == [Page |-> 0, PageSize |-> 0, PageCount |-> 0, TotalData |-> 0]

Offset_pageTimesPageSize(p) == IF p.Page > 0 THEN int64(p.Page * p.PageSize) ELSE 0
Offset(p) == IF p.Page > 0 THEN int64((p.Page - 1) * p.PageSize) ELSE 0

getPageCount_roundsDown(pageSize, totalData) ==
    IF pageSize > 0
    THEN IF pageSize >= totalData THEN 1 ELSE totalData \div pageSize
    ELSE 1
getPageCount(pageSize, totalData) ==
    IF pageSize > 0
    THEN IF pageSize >= totalData THEN 1
         ELSE IF totalData % pageSize = 0 THEN totalData \div pageSize
         ELSE (totalData \div pageSize) + 1
    ELSE 1

CreatePaginationOutput_swapsTotalAndCount(input, totalData) ==
    [Page |-> input.Page, PageSize |-> input.PageSize,
     TotalData |-> IF input.PageSize > 0 /\ input.PageSize < totalData
                   THEN (totalData + input.PageSize - 1) \div input.PageSize ELSE 1,
     PageCount |-> totalData]
CreatePaginationOutput(input, totalData) ==
    [Page |-> input.Page, PageSize |-> input.PageSize, TotalData |-> totalData,
     PageCount |-> getPageCount(input.PageSize, totalData)]

(***************************************************************************)
(* Facades.  A facade is the rdbms struct: the rdbms_impl.go variant keeps *)
(* the live connection in db and the executor in queryExecutor; the        *)
(* variant built by sqlxTransaction.DoTx keeps its executor in db.         *)
(***************************************************************************)
NewRdbms(db) == [impl |-> "rdbms_impl", db |-> db, queryExecutor |-> db]

NewRdbmsQE(db) == [impl |-> "queryExecutor", db |-> db]

\* The receiver *s once injectTx has returned: line 248 copies the struct and
\* line 249 writes to the copy, so the receiver is as it was.
injectTxReceiver_setInPlace(s, tx) == [s EXCEPT !.queryExecutor = tx]
injectTxReceiver(s, tx) == s

injectTx_keepsExecutor(s, tx) == s
injectTx(s, tx) == [s EXCEPT !.queryExecutor = tx]

\* The executor a facade operation sends its statement to.
Executor(s) == IF s.impl = "queryExecutor" THEN s.db ELSE s.queryExecutor

(***************************************************************************)
(* Facade operations.  done: the executor is a transaction that has been   *)
(* committed or rolled back (database/sql then answers ErrTxDone).         *)
(* in: what the collaborators answer (render, execute, scan, callback,     *)
(* close).  The result records the returned error, the failure a           *)
(* collaborator answered (cause), the executor calls made and the          *)
(* operation's span (for a paginated read: the span of its last query,     *)
(* in countSpan the span of its count query, and in limit and offset what  *)
(* it put on its row query).                                               *)
(***************************************************************************)
Result(op) ==
    [op |-> op, err |-> Nil, cause |-> Nil, res |-> FALSE, calls |-> <<>>,
     span |-> NoSpan, countSpan |-> NoSpan, cbInvoked |-> FALSE, closes |-> 0,
     out |-> ZeroOutput, limit |-> 0, offset |-> 0, fault |-> FALSE]

\* The operation raised a run-time panic instead of returning.
Fault(op) == [Result(op) EXCEPT !.fault = TRUE]

\* defaultSpanNameFN: s[0:15] plus "...".  Slicing a statement of fewer than
\* 15 bytes is a run-time panic; otherwise the name has 18 bytes.  stmt is the
\* length of the statement.
defaultSpanNameFN(stmt) ==
    IF stmt >= SpanNameLen THEN [fault |-> FALSE, len |-> SpanNameLen + 3]
    ELSE [fault |-> TRUE, len |-> 0]

\* The span name a facade operation computes before it starts its span: the
\* rdbms_impl.go facade calls s.spanNameFunc (NewRdbms sets defaultSpanNameFN),
\* the variant over a bare queryExecutor names the span by the statement.
spanName(s, stmt) ==
    IF s.impl = "rdbms_impl" THEN defaultSpanNameFN(stmt)
    ELSE [fault |-> FALSE, len |-> stmt]

ExecutorCall(method, s, done) == [method |-> method, on |-> Executor(s), done |-> done]

Answer(done, err) == IF done THEN ErrTxDone ELSE err

QuerySq_closeErrorReturned(s, done, in) ==
    IF in.render # Nil
    THEN [Result("QuerySq") EXCEPT !.err = errTracer(in.render), !.cause = in.render]
    ELSE IF spanName(s, in.stmt).fault THEN Fault("QuerySq")
    ELSE LET err == Answer(done, in.exec)
             r0 == [Result("QuerySq") EXCEPT
                      !.calls = <<ExecutorCall("QueryxContext", s, done)>>,
                      !.cause = err]
         IN IF err # Nil
            THEN [r0 EXCEPT !.err = err,
                            !.span = EndSpan(recordError(StartSpan, err))]
            ELSE LET sp1 == recordError(StartSpan, in.close)
                     sp2 == [sp1 EXCEPT !.closeRows =
                               IF in.close # Nil THEN "failed" ELSE "successfully"]
                 IN [r0 EXCEPT !.err = IF in.close # Nil THEN in.close ELSE in.cb,
                               !.cause = in.cb, !.cbInvoked = TRUE, !.closes = 1,
                               !.span = EndSpan(sp2)]
QuerySq(s, done, in) ==
    IF in.render # Nil
    THEN [Result("QuerySq") EXCEPT !.err = errTracer(in.render), !.cause = in.render]
    ELSE IF spanName(s, in.stmt).fault THEN Fault("QuerySq")
    ELSE LET err == Answer(done, in.exec)
             r0 == [Result("QuerySq") EXCEPT
                      !.calls = <<ExecutorCall("QueryxContext", s, done)>>,
                      !.cause = err]
         IN IF err # Nil
            THEN [r0 EXCEPT !.err = err,
                            !.span = EndSpan(recordError(StartSpan, err))]
            ELSE LET sp1 == recordError(StartSpan, in.close)
                     sp2 == [sp1 EXCEPT !.closeRows =
                               IF in.close # Nil THEN "failed" ELSE "successfully"]
                 IN [r0 EXCEPT !.err = in.cb, !.cause = in.cb, !.cbInvoked = TRUE, !.closes = 1,
                               !.span = EndSpan(sp2)]

ExecSq_executesBeforeRenderCheck(s, done, in) ==
    LET err == Answer(done, in.exec)
        r0 == [Result("ExecSq") EXCEPT
                 !.calls = <<ExecutorCall("ExecContext", s, done)>>,
                 !.cause = err]
    IN IF in.render # Nil
       THEN [r0 EXCEPT !.err = errTracer(in.render), !.cause = in.render]
       ELSE IF spanName(s, in.stmt).fault THEN Fault("ExecSq")
       ELSE IF err # Nil
            THEN [r0 EXCEPT !.err = err,
                            !.span = EndSpan(recordError(StartSpan, err))]
            ELSE [r0 EXCEPT !.res = TRUE, !.span = EndSpan(StartSpan)]
ExecSq(s, done, in) ==
    IF in.render # Nil
    THEN [Result("ExecSq") EXCEPT !.err = errTracer(in.render), !.cause = in.render]
    ELSE IF spanName(s, in.stmt).fault THEN Fault("ExecSq")
    ELSE LET err == Answer(done, in.exec)
             r0 == [Result("ExecSq") EXCEPT
                      !.calls = <<ExecutorCall("ExecContext", s, done)>>,
                      !.cause = err]
         IN IF err # Nil
            THEN [r0 EXCEPT !.err = err,
                            !.span = EndSpan(recordError(StartSpan, err))]
            ELSE [r0 EXCEPT !.res = TRUE, !.span = EndSpan(StartSpan)]

\* rdbms_impl.go: the scan error is tagged as it is.
QueryRowSq_retriesFailedRead(s, done, in) ==
    IF in.render # Nil
    THEN [Result("QueryRowSq") EXCEPT !.err = errTracer(in.render), !.cause = in.render]
    ELSE IF spanName(s, in.stmt).fault THEN Fault("QueryRowSq")
    ELSE LET err == Answer(done, in.scan)
             c == ExecutorCall("QueryRowxContext", s, done)
         IN IF err # Nil
            THEN [Result("QueryRowSq") EXCEPT
                    !.calls = <<c, c>>, !.cause = err,
                    !.err = errTracer(err),
                    !.span = EndSpan(IF ~errorsIs(err, ErrNoRows)
                                     THEN recordError(StartSpan, err)
                                     ELSE StartSpan)]
            ELSE [Result("QueryRowSq") EXCEPT
                    !.calls = <<c>>, !.res = TRUE, !.span = EndSpan(StartSpan)]
QueryRowSq(s, done, in) ==
    IF in.render # Nil
    THEN [Result("QueryRowSq") EXCEPT !.err = errTracer(in.render), !.cause = in.render]
    ELSE IF spanName(s, in.stmt).fault THEN Fault("QueryRowSq")
    ELSE LET err == Answer(done, in.scan)
             r0 == [Result("QueryRowSq") EXCEPT
                      !.calls = <<ExecutorCall("QueryRowxContext", s, done)>>,
                      !.cause = err]
         IN IF err # Nil
            THEN [r0 EXCEPT
                    !.err = errTracer(err),
                    !.span = EndSpan(IF ~errorsIs(err, ErrNoRows)
                                     THEN recordError(StartSpan, err)
                                     ELSE StartSpan)]
            ELSE [r0 EXCEPT !.res = TRUE, !.span = EndSpan(StartSpan)]

\* The variant over a bare queryExecutor: no rows is joined with ErrRecordNoRows.
QueryRowSqJoin(s, done, in) ==
    IF in.render # Nil
    THEN [Result("QueryRowSq") EXCEPT !.err = errTracer(in.render), !.cause = in.render]
    ELSE IF spanName(s, in.stmt).fault THEN Fault("QueryRowSq")
    ELSE LET err == Answer(done, in.scan)
             r0 == [Result("QueryRowSq") EXCEPT
                      !.calls = <<ExecutorCall("QueryRowxContext", s, done)>>,
                      !.cause = err]
         IN IF err # Nil
            THEN IF errorsIs(err, ErrNoRows)
                 THEN [r0 EXCEPT !.err = errTracer(errorsJoin(err, ErrRecordNoRows)),
                                 !.span = EndSpan(StartSpan)]
                 ELSE [r0 EXCEPT !.err = errTracer(err),
                                 !.span = EndSpan(recordError(StartSpan, err))]
            ELSE [r0 EXCEPT !.res = TRUE, !.span = EndSpan(StartSpan)]

\* Method dispatch on the facade's concrete type.
FacadeQueryRowSq(s, done, in) ==
    IF s.impl = "queryExecutor" THEN QueryRowSqJoin(s, done, in) ELSE QueryRowSq(s, done, in)

\* in.count answers the count query, in.rows the row query; in.total is the
\* scalar the count query reads.
QuerySqPagination_rowsDespiteCountFailure(s, done, in) ==
    LET cnt == FacadeQueryRowSq(s, done, in.count)
        q == QuerySq(s, done, in.rows)
        r1 == [Result("QuerySqPagination") EXCEPT
                 !.limit = uint64(in.input.PageSize),
                 !.offset = uint64(Offset(in.input)),
                 !.calls = cnt.calls \o q.calls, !.span = q.span,
                 !.countSpan = cnt.span, !.cause = q.cause,
                 !.cbInvoked = q.cbInvoked, !.closes = q.closes]
    IN IF cnt.fault \/ q.fault
       THEN Fault("QuerySqPagination")
       ELSE IF cnt.err # Nil
       THEN [r1 EXCEPT !.err = errTracer(cnt.err), !.cause = cnt.cause]
       ELSE IF q.err # Nil
            THEN [r1 EXCEPT !.err = errTracer(q.err)]
            ELSE [r1 EXCEPT !.res = TRUE,
                            !.out = CreatePaginationOutput(in.input, in.total)]
QuerySqPagination(s, done, in) ==
    LET cnt == FacadeQueryRowSq(s, done, in.count)
        r0 == [Result("QuerySqPagination") EXCEPT
                 !.limit = uint64(in.input.PageSize),
                 !.offset = uint64(Offset(in.input)),
                 !.calls = cnt.calls, !.span = cnt.span, !.countSpan = cnt.span,
                 !.cause = cnt.cause]
    IN IF cnt.fault
       THEN Fault("QuerySqPagination")
       ELSE IF cnt.err # Nil
       THEN [r0 EXCEPT !.err = errTracer(cnt.err)]
       ELSE LET q == QuerySq(s, done, in.rows)
                r1 == [r0 EXCEPT !.calls = cnt.calls \o q.calls, !.span = q.span,
                                 !.cause = q.cause,
                                 !.cbInvoked = q.cbInvoked, !.closes = q.closes]
            IN IF q.fault
               THEN Fault("QuerySqPagination")
               ELSE IF q.err # Nil
               THEN [r1 EXCEPT !.err = errTracer(q.err)]
               ELSE [r1 EXCEPT !.res = TRUE,
                               !.out = CreatePaginationOutput(in.input, in.total)]

(***************************************************************************)
(* Transactions.  A *sqlx.Tx is done after its first Commit or Rollback,   *)
(* whether the driver reported success or not.                             *)
(***************************************************************************)
NoTx == [state |-> "none", commits |-> 0, rollbacks |-> 0]
OpenTx == [state |-> "open", commits |-> 0, rollbacks |-> 0]

TxCommit(tx) == [tx EXCEPT !.state = "done", !.commits = @ + 1]
TxRollback(tx) == [tx EXCEPT !.state = "done", !.rollbacks = @ + 1]

NoFacade == [impl |-> "none"]
NoPanic == "none"

\* An invocation: where it is (pc), what it holds (span, tx, facade), what
\* work did (works, out, workErr, workVal), what Commit/Rollback answered
\* (ans), what the invocation gave back (ret, or the panic value it raised),
\* the order of its calls (trace), and whether the caller's context, which
\* the transaction was begun with, is still live (ctx).
IdleCall ==
    [pc |-> "idle", variant |-> "none", ctx |-> "live", span |-> NoSpan, tx |-> NoTx,
     facade |-> NoFacade, works |-> 0, out |-> "none", workErr |-> Nil,
     workVal |-> NoPanic, ans |-> Nil, ret |-> Nil, panicVal |-> NoPanic,
     trace |-> <<>>]

\* What work did: returned err (possibly nil), panicked with val, or ended its
\* goroutine (runtime.Goexit) without returning.
Returned(err) == [kind |-> "return", err |-> err, val |-> NoPanic]
Panicked(val) == [kind |-> "panic", err |-> Nil, val |-> val]
Goexit == [kind |-> "goexit", err |-> Nil, val |-> NoPanic]

PanicVals == {"panicA", "panicB"}

\* work has ended with out; Commit or Rollback will answer ans.
Ended(c, out, ans) ==
    [c EXCEPT !.out = out.kind, !.workErr = out.err, !.workVal = out.val, !.ans = ans]

\* Where control goes when the deferred closure has run without panicking.
Leave(out) == IF out.kind = "goexit" THEN "exited" ELSE "returned"

\* The deferred span.End of rdbms_impl.go:263, 321 and db_tx_impl.go:34.
deferredSpanEnd(c) == [c EXCEPT !.span = EndSpan(@), !.trace = Append(@, "span.End")]

(***************************************************************************)
(* rdbms.DoTx                                                              *)
(***************************************************************************)
\* Lines 253-269 and the call of fn at 304: span, BeginTxx, injectTx.
DoTxOpen(s, h, errB) ==
    IF errB # Nil
    THEN [IdleCall EXCEPT
            !.variant = "DoTx", !.pc = "returned",
            !.span = EndSpan(recordError(StartSpan, errB)),
            !.ret = errTracer(errB),
            !.trace = <<"span.Start", "BeginTxx", "span.End">>]
    ELSE [IdleCall EXCEPT
            !.variant = "DoTx", !.pc = "work", !.span = StartSpan, !.tx = OpenTx,
            !.facade = injectTx(s, h), !.works = 1,
            !.trace = <<"span.Start", "BeginTxx", "fn">>]

\* Lines 272-282: recover() gave a value; roll back, record, panic again.
txOnPanic_returnsRollbackError(c, out, ans) ==
    [c EXCEPT !.tx = TxRollback(@), !.ret = ans, !.pc = "returned",
              !.trace = Append(@, "Rollback")]
txOnPanic(c, out, ans) ==
    LET sp1 == [c.span EXCEPT !.txOperation = "rollback"]
        sp2 == IF ans # Nil
               THEN [recordError(sp1, ans) EXCEPT !.txStatus = "rollback failed"]
               ELSE [sp1 EXCEPT !.txStatus = "rollback successfully"]
    IN [c EXCEPT !.tx = TxRollback(@),
                 !.span = recordError(sp2, Base("panic occurred")),
                 !.pc = "panicked", !.panicVal = out.val,
                 !.trace = Append(@, "Rollback")]

\* Lines 283-291: the named result err is not nil; roll back.
txOnError_commits(c, out, err, ans) ==
    [c EXCEPT !.tx = TxCommit(@), !.ret = err, !.pc = Leave(out),
              !.trace = Append(@, "Commit")]
txOnError(c, out, err, ans) ==
    LET sp1 == [c.span EXCEPT !.txOperation = "rollback"]
    IN IF ans # Nil
       THEN [c EXCEPT !.tx = TxRollback(@),
                      !.span = [recordError(sp1, ans) EXCEPT
                                  !.txStatus = "rollback failed"],
                      !.ret = errorsJoin(err, ans),
                      !.pc = Leave(out), !.trace = Append(@, "Rollback")]
       ELSE [c EXCEPT !.tx = TxRollback(@),
                      !.span = [sp1 EXCEPT !.txStatus = "rollback successfully"],
                      !.ret = err,
                      !.pc = Leave(out), !.trace = Append(@, "Rollback")]

\* Lines 292-301: commit.
txOnSuccess_rollsBackOnCommitFailure(c, out, ans) ==
    IF ans # Nil
    THEN [c EXCEPT !.tx = TxRollback(TxCommit(@)), !.ret = ans, !.pc = Leave(out),
                   !.trace = @ \o <<"Commit", "Rollback">>]
    ELSE [c EXCEPT !.tx = TxCommit(@), !.ret = Nil, !.pc = Leave(out),
                   !.trace = Append(@, "Commit")]
txOnSuccess(c, out, ans) ==
    LET sp1 == [c.span EXCEPT !.txOperation = "commit"]
    IN IF ans # Nil
       THEN [c EXCEPT !.tx = TxCommit(@),
                      !.span = [recordError(sp1, ans) EXCEPT
                                  !.txStatus = "commit failed"],
                      !.ret = ans,
                      !.pc = Leave(out), !.trace = Append(@, "Commit")]
       ELSE [c EXCEPT !.tx = TxCommit(@),
                      !.span = [sp1 EXCEPT !.txStatus = "commit successfully"],
                      !.ret = Nil,
                      !.pc = Leave(out), !.trace = Append(@, "Commit")]

\* The deferred closure of lines 271-302 (repeated verbatim at 329-360): err is
\* the named result; recover() gives a value only when work panicked.
txDeferred_neverCommits(c, out, err, ans) ==
    IF out.kind = "panic" THEN txOnPanic(c, out, ans)
    ELSE txOnError(c, out, err, ans)
txDeferred(c, out, err, ans) ==
    IF out.kind = "panic" THEN txOnPanic(c, out, ans)
    ELSE IF err # Nil THEN txOnError(c, out, err, ans)
    ELSE txOnSuccess(c, out, ans)

\* Lines 304-308, then the deferred calls: work's error is recorded on the span
\* before the deferred closure runs.
DoTxFinish(c, out, ans) ==
    LET c1 == [Ended(c, out, ans) EXCEPT
                 !.span = IF out.kind = "return" THEN recordError(@, out.err) ELSE @]
    IN deferredSpanEnd(txDeferred(c1, out, out.err, ans))

(***************************************************************************)
(* rdbms.DoTxContext                                                       *)
(***************************************************************************)
\* Lines 311-327 and the call of fn at 362.
DoTxContextOpen(s, h, errB) ==
    IF errB # Nil
    THEN [IdleCall EXCEPT
            !.variant = "DoTxContext", !.pc = "returned",
            !.span = EndSpan(recordError(StartSpan, errB)),
            !.ret = errTracer(errB),
            !.trace = <<"span.Start", "BeginTxx", "span.End">>]
    ELSE [IdleCall EXCEPT
            !.variant = "DoTxContext", !.pc = "work", !.span = StartSpan,
            !.tx = OpenTx, !.facade = injectTx(s, h), !.works = 1,
            !.trace = <<"span.Start", "BeginTxx", "fn">>]

\* Lines 362-363, then the deferred calls.
DoTxContextFinish_endsSpanBeforeResolving(c, out, ans) ==
    txDeferred(deferredSpanEnd(Ended(c, out, ans)), out, out.err, ans)
DoTxContextFinish(c, out, ans) ==
    deferredSpanEnd(txDeferred(Ended(c, out, ans), out, out.err, ans))

(***************************************************************************)
(* sqlxTransaction.DoTx                                                    *)
(***************************************************************************)
\* db_tx_impl.go lines 24-40 and 60-62: the facade is a fresh NewRdbms(tx).
SqlxDoTxOpen_commitsBeforeWork(h, errB) ==
    [IdleCall EXCEPT
       !.variant = "sqlxTransaction.DoTx", !.pc = "work", !.span = StartSpan,
       !.tx = TxCommit(OpenTx), !.facade = NewRdbmsQE(h), !.works = 1,
       !.trace = <<"span.Start", "BeginTxx", "Commit", "fn">>]
SqlxDoTxOpen(h, errB) ==
    IF errB # Nil
    THEN [IdleCall EXCEPT
            !.variant = "sqlxTransaction.DoTx", !.pc = "returned",
            !.span = EndSpan(recordError(StartSpan, errB)),
            !.ret = errTracer(errB),
            !.trace = <<"span.Start", "BeginTxx", "span.End">>]
    ELSE [IdleCall EXCEPT
            !.variant = "sqlxTransaction.DoTx", !.pc = "work", !.span = StartSpan,
            !.tx = OpenTx, !.facade = NewRdbmsQE(h), !.works = 1,
            !.trace = <<"span.Start", "BeginTxx", "fn">>]

\* db_tx_impl.go lines 43-46.
sqlxOnPanic(c, out, ans) ==
    [c EXCEPT !.tx = TxRollback(@), !.span = recordError(@, ans),
              !.pc = "panicked", !.panicVal = out.val,
              !.trace = Append(@, "Rollback")]

\* db_tx_impl.go lines 47-51: a failed rollback replaces the error.
sqlxOnError(c, out, err, ans) ==
    [c EXCEPT !.tx = TxRollback(@),
              !.span = recordError(@, ans),
              !.ret = IF ans # Nil THEN ans ELSE err,
              !.pc = Leave(out), !.trace = Append(@, "Rollback")]

\* db_tx_impl.go lines 52-57.
sqlxOnSuccess_swallowsCommitError(c, out, ans) ==
    [c EXCEPT !.tx = TxCommit(@), !.span = recordError(@, ans), !.ret = Nil,
              !.pc = Leave(out), !.trace = Append(@, "Commit")]
sqlxOnSuccess(c, out, ans) ==
    [c EXCEPT !.tx = TxCommit(@),
              !.span = recordError(@, ans),
              !.ret = IF ans # Nil THEN ans ELSE Nil,
              !.pc = Leave(out), !.trace = Append(@, "Commit")]

\* The deferred closure of db_tx_impl.go lines 42-58.
sqlxDeferred(c, out, err, ans) ==
    IF out.kind = "panic" THEN sqlxOnPanic(c, out, ans)
    ELSE IF err # Nil THEN sqlxOnError(c, out, err, ans)
    ELSE sqlxOnSuccess(c, out, ans)

\* db_tx_impl.go lines 62-63, then the deferred calls.
SqlxDoTxFinish(c, out, ans) ==
    deferredSpanEnd(sqlxDeferred(Ended(c, out, ans), out, out.err, ans))

(***************************************************************************)
(* The state machine.  A caller invokes the transactional executors one    *)
(* after the other; the work it passes issues facade operations and ends.  *)
(* The caller also uses the live facade directly, and may keep the facade  *)
(* work was handed and use it after the executor has left.                 *)
(***************************************************************************)
NoLast == [via |-> -1, phase |-> "none", in |-> [render |-> Nil], r |-> Result("none")]

NoCalc ==
    [fn |-> "none", Page |-> 0, PageSize |-> 0, total |-> 0, err |-> Nil, n |-> 0,
     result |-> 0]

Init ==
    /\ rdbmsLive = NewRdbms(LiveDB)
    /\ call = IdleCall
    /\ past = <<>>
    /\ last = NoLast
    /\ calc = NoCalc
    /\ invs = <<>>

Opened(c) == c.tx.state # "none"

\* The handle of the transaction the current invocation opened (or will open).
Handle == Len(past) + 1

\* A new invocation begins once the previous one has left; the previous
\* transaction and facade stay behind with whoever kept them.
Archive == IF Opened(call)
           THEN Append(past, [state |-> call.tx.state, facade |-> call.facade])
           ELSE past
CanCall == call.pc # "work" /\ Len(Archive) < MaxTx

CallDoTx ==
    /\ CanCall
    /\ \E errB \in {Nil, errBegin} : call' = DoTxOpen(rdbmsLive, Len(Archive) + 1, errB)
    /\ past' = Archive
    /\ UNCHANGED <<rdbmsLive, last, calc, invs>>

CallDoTxContext ==
    /\ CanCall
    /\ \E errB \in {Nil, errBegin} :
         call' = DoTxContextOpen(rdbmsLive, Len(Archive) + 1, errB)
    /\ past' = Archive
    /\ UNCHANGED <<rdbmsLive, last, calc, invs>>

CallSqlxDoTx ==
    /\ CanCall
    /\ \E errB \in {Nil, errBegin} : call' = SqlxDoTxOpen(Len(Archive) + 1, errB)
    /\ past' = Archive
    /\ UNCHANGED <<rdbmsLive, last, calc, invs>>

\* The errors work may return: nil, its own, or the tagged no-rows error a
\* single-row read gave it.
WorkErrs == {Nil, errBoom, errTracer(ErrNoRows)}

Outcomes ==
    {Returned(e) : e \in WorkErrs} \cup {Panicked(v) : v \in PanicVals} \cup {Goexit}

Finish(c, out, ans) ==
    CASE c.variant = "DoTx" -> DoTxFinish(c, out, ans)
      [] c.variant = "DoTxContext" -> DoTxContextFinish(c, out, ans)
      [] c.variant = "sqlxTransaction.DoTx" -> SqlxDoTxFinish(c, out, ans)

\* What tx.Rollback() (rollback = TRUE) or tx.Commit() can answer.  Once the
\* context the transaction was begun with is cancelled, database/sql refuses
\* to commit (the context's error, or ErrTxDone when it has already rolled the
\* transaction back itself), and a rollback may find the transaction done.
ResolveAnswers(ctx, rollback) ==
    IF rollback
    THEN IF ctx = "cancelled" THEN {Nil, errRollback, ErrTxDone} ELSE {Nil, errRollback}
    ELSE IF ctx = "cancelled" THEN {errCanceled, ErrTxDone} ELSE {Nil, errCommit}

\* work ends and the executor resolves the transaction; ans is what the
\* transaction's Commit or Rollback answers.
WorkEnds ==
    /\ call.pc = "work"
    /\ \E out \in Outcomes :
         \E ans \in ResolveAnswers(call.ctx, out.kind = "panic" \/ out.err # Nil) :
           call' = Finish(call, out, ans)
    /\ UNCHANGED <<rdbmsLive, past, last, calc, invs>>

\* The facades a caller can hold: 0 is the live facade, h the one handed to
\* the work of the invocation that opened transaction h.
Vias == 0..MaxTx
Holds(via) == via = 0 \/ (via \in 1..Len(past)) \/ (via = Handle /\ Opened(call))
Facade(via) ==
    IF via = 0 THEN rdbmsLive
    ELSE IF via <= Len(past) THEN past[via].facade ELSE call.facade
Phase(via) ==
    IF via = 0 THEN "live"
    ELSE IF via = Handle /\ call.pc = "work" THEN "work" ELSE "after"

\* The state of the transaction behind handle h.
TxState(h) == IF h <= Len(past) THEN past[h].state ELSE call.tx.state

\* The executor behind a facade is a transaction already committed or rolled back.
HandleDone(s) == Executor(s) # LiveDB /\ TxState(Executor(s)) = "done"

\* The length of the statements the callers render, e.g.
\* "SELECT id, name FROM users WHERE id = $1".
LongStmt == 40

\* What the collaborators answer when asked; an answer that is never asked for
\* (the execute after a failed render, the callback after a failed execute) is
\* left nil.
OkQuery == [stmt |-> LongStmt, render |-> Nil, exec |-> Nil, cb |-> Nil, close |-> Nil]
QueryIns ==
    {[OkQuery EXCEPT !.render = errRender], [OkQuery EXCEPT !.exec = errExec]}
    \cup {[OkQuery EXCEPT !.cb = c, !.close = k] :
            c \in {Nil, errCallback}, k \in {Nil, errClose}}

OkRow == [stmt |-> LongStmt, render |-> Nil, scan |-> Nil]
RowIns ==
    {[OkRow EXCEPT !.render = errRender]}
    \cup {[OkRow EXCEPT !.scan = e] : e \in {Nil, ErrNoRows, errScan}}

OkExec == [stmt |-> LongStmt, render |-> Nil, exec |-> Nil]
ExecIns == {OkExec, [OkExec EXCEPT !.render = errRender], [OkExec EXCEPT !.exec = errExec]}

\* Pagination inputs with the total the count query reads.
PageCases ==
    {[input |-> [Page |-> 2, PageSize |-> 10], total |-> 25],
     [input |-> [Page |-> 1, PageSize |-> 100], total |-> 7],
     [input |-> [Page |-> 0, PageSize |-> 0], total |-> 3]}
PageIns ==
    {[count |-> c, rows |-> OkQuery, input |-> p.input, total |-> p.total] :
       c \in RowIns \ {OkRow}, p \in PageCases}
    \cup {[count |-> OkRow, rows |-> q, input |-> p.input, total |-> p.total] :
            q \in QueryIns, p \in PageCases}

\* The operation issued through facade via with collaborators answering in
\* has given r.
\* On a transaction already resolved the database answers for the driver:
\* the only collaborator still asked is the renderer.
Asked(ins, ok, done) ==
    IF done THEN {ok, [ok EXCEPT !.render = errRender]} ELSE ins
PageAsked(done) ==
    IF done THEN {in \in PageIns : in.count \in Asked(RowIns, OkRow, TRUE)} ELSE PageIns

Issue(via, in, r) ==
    /\ last' = [via |-> via, phase |-> Phase(via), in |-> in, r |-> r]
    /\ UNCHANGED <<rdbmsLive, call, past, calc, invs>>

OpQuerySq(via) ==
    /\ Holds(via)
    /\ \E in \in Asked(QueryIns, OkQuery, HandleDone(Facade(via))) :
         Issue(via, in, QuerySq(Facade(via), HandleDone(Facade(via)), in))

OpQueryRowSq(via) ==
    /\ Holds(via)
    /\ \E in \in Asked(RowIns, OkRow, HandleDone(Facade(via))) :
         Issue(via, in, FacadeQueryRowSq(Facade(via), HandleDone(Facade(via)), in))

OpExecSq(via) ==
    /\ Holds(via)
    /\ \E in \in Asked(ExecIns, OkExec, HandleDone(Facade(via))) :
         Issue(via, in, ExecSq(Facade(via), HandleDone(Facade(via)), in))

OpQuerySqPagination(via) ==
    /\ Holds(via)
    /\ \E in \in PageAsked(HandleDone(Facade(via))) :
         Issue(via, in, QuerySqPagination(Facade(via), HandleDone(Facade(via)), in))

Next ==
    \/ CallDoTx
    \/ CallDoTxContext
    \/ CallSqlxDoTx
    \/ WorkEnds
    \/ \E via \in Vias : OpQuerySq(via)
    \/ \E via \in Vias : OpQueryRowSq(via)
    \/ \E via \in Vias : OpExecSq(via)
    \/ \E via \in Vias : OpQuerySqPagination(via)

Spec == Init /\ [][Next]_vars

(***************************************************************************)
(* Cancellation: the caller's context is cancelled while work runs.  The   *)
(* executors never inspect the context; work, which is caller code, may    *)
(* still end in any way.                                                   *)
(***************************************************************************)
CancelContext ==
    /\ call.pc = "work" /\ call.ctx = "live"
    /\ call' = [call EXCEPT !.ctx = "cancelled"]
    /\ UNCHANGED <<rdbmsLive, past, last, calc, invs>>

CancelNext ==
    \/ CallDoTx
    \/ CallDoTxContext
    \/ CallSqlxDoTx
    \/ CancelContext
    \/ WorkEnds

SpecCancel == Init /\ [][CancelNext]_vars

(***************************************************************************)
(* Concurrency: MaxConc goroutines each invoke rdbms.DoTx or               *)
(* rdbms.DoTxContext on the one live facade, while the live facade is also *)
(* used directly.  Goroutine g opens transaction g; the steps of the       *)
(* goroutines interleave freely.                                           *)
(***************************************************************************)
Goroutines == 1..MaxConc

ConcInit ==
    /\ rdbmsLive = NewRdbms(LiveDB)
    /\ call = IdleCall
    /\ past = <<>>
    /\ last = NoLast
    /\ calc = NoCalc
    /\ invs = [g \in Goroutines |-> IdleCall]

\* Goroutine g calls DoTx or DoTxContext on the live facade.
ConcCall(g) ==
    /\ invs[g].pc = "idle"
    /\ \E errB \in {Nil, errBegin} :
         /\ \/ invs' = [invs EXCEPT ![g] = DoTxOpen(rdbmsLive, g, errB)]
            \/ invs' = [invs EXCEPT ![g] = DoTxContextOpen(rdbmsLive, g, errB)]
         /\ rdbmsLive' = IF errB = Nil THEN injectTxReceiver(rdbmsLive, g) ELSE rdbmsLive
    /\ UNCHANGED <<call, past, last, calc>>

\* The executor of facade s is a transaction some goroutine has resolved.
ConcDone(s) == Executor(s) # LiveDB /\ invs[Executor(s)].tx.state = "done"

\* A write through facade s, issued by goroutine via (0: outside any work).
ConcExecSq(via, s) ==
    /\ \E in \in Asked(ExecIns, OkExec, ConcDone(s)) :
         last' = [via |-> via, phase |-> IF via = 0 THEN "live" ELSE "work",
                  in |-> in, r |-> ExecSq(s, ConcDone(s), in)]
    /\ UNCHANGED <<rdbmsLive, call, past, calc, invs>>

\* work of goroutine g writes through the facade it was handed.
ConcWorkOp(g) == invs[g].pc = "work" /\ ConcExecSq(g, invs[g].facade)

\* The live facade is used directly while transactions are in flight.
ConcLiveOp == ConcExecSq(0, rdbmsLive)

\* How work of a goroutine ends.
ConcOutcomes == {Returned(Nil), Returned(errBoom), Panicked("panicA")}

ConcWorkEnds(g) ==
    /\ invs[g].pc = "work"
    /\ \E out \in ConcOutcomes :
         \E ans \in ResolveAnswers(invs[g].ctx, out.kind = "panic" \/ out.err # Nil) :
           invs' = [invs EXCEPT ![g] = Finish(invs[g], out, ans)]
    /\ UNCHANGED <<rdbmsLive, call, past, last, calc>>

ConcNext ==
    \/ \E g \in Goroutines : ConcCall(g)
    \/ \E g \in Goroutines : ConcWorkOp(g)
    \/ ConcLiveOp
    \/ \E g \in Goroutines : ConcWorkEnds(g)

SpecConc == ConcInit /\ [][ConcNext]_vars

(***************************************************************************)
(* Tagging on its own: errTracer applied again and again to an error, and  *)
(* the two tags a paginated read puts on an empty count read.              *)
(***************************************************************************)
Sentinels == {ErrNoRows, ErrRecordNoRows}
TagBases == Sentinels \cup {errScan, errBoom}
TagJoins == {errorsJoin(a, b) : a \in TagBases, b \in TagBases \cup {Nil}}
TagInputs == TagBases \cup TagJoins \cup {errTracer(j) : j \in TagJoins}

TagInit ==
    /\ rdbmsLive = NewRdbms(LiveDB)
    /\ call = IdleCall
    /\ past = <<>>
    /\ last = NoLast
    /\ invs = <<>>
    /\ calc \in {[NoCalc EXCEPT !.err = e, !.result = e] : e \in TagInputs}

ApplyErrTracer ==
    /\ calc.fn \in {"none", "errTracer"} /\ calc.n < MaxTags
    /\ calc' = [calc EXCEPT !.fn = "errTracer", !.result = errTracer(@), !.n = @ + 1]
    /\ UNCHANGED <<rdbmsLive, call, past, last, invs>>

\* A paginated read whose count query finds no row, through either facade
\* variant: err is what QueryRowSq returned, result what QuerySqPagination
\* returns.
ApplyEmptyCountRead ==
    /\ calc.fn = "none" /\ calc.err = ErrNoRows
    /\ \E s \in {rdbmsLive, NewRdbmsQE(LiveDB)} :
         LET count == [OkRow EXCEPT !.scan = ErrNoRows]
             in == [count |-> count, rows |-> OkQuery,
                    input |-> [Page |-> 1, PageSize |-> 10], total |-> 0]
         IN calc' = [calc EXCEPT !.fn = "QuerySqPagination",
                                 !.err = FacadeQueryRowSq(s, FALSE, count).err,
                                 !.result = QuerySqPagination(s, FALSE, in).err,
                                 !.n = 1]
    /\ UNCHANGED <<rdbmsLive, call, past, last, invs>>

TagNext == ApplyErrTracer \/ ApplyEmptyCountRead

SpecTag == TagInit /\ [][TagNext]_vars

(***************************************************************************)
(* Span naming: the facade operations on the facade NewRdbms builds, which *)
(* names spans with defaultSpanNameFN, for statements of every length up   *)
(* to MaxStmtLen.                                                          *)
(***************************************************************************)
StmtLens == 0..MaxStmtLen

IssueLive(in, r) ==
    /\ last' = [via |-> 0, phase |-> "live", in |-> in, r |-> r]
    /\ UNCHANGED <<rdbmsLive, call, past, calc, invs>>

NameQuerySq ==
    \E n \in StmtLens, i \in QueryIns :
      LET in == [i EXCEPT !.stmt = n] IN IssueLive(in, QuerySq(rdbmsLive, FALSE, in))

NameQueryRowSq ==
    \E n \in StmtLens, i \in RowIns :
      LET in == [i EXCEPT !.stmt = n]
      IN IssueLive(in, FacadeQueryRowSq(rdbmsLive, FALSE, in))

NameExecSq ==
    \E n \in StmtLens, i \in ExecIns :
      LET in == [i EXCEPT !.stmt = n] IN IssueLive(in, ExecSq(rdbmsLive, FALSE, in))

NameNext == NameQuerySq \/ NameQueryRowSq \/ NameExecSq

SpecName == Init /\ [][NameNext]_vars

(***************************************************************************)
(* The pagination calculator on its own: pure functions of a page, a page  *)
(* size and a row total, applied to every input of a bounded range.        *)
(***************************************************************************)
Pages == -1..MaxPage
PageSizes == -1..MaxPageSize
Totals == 0..MaxTotal

CalcInit ==
    /\ rdbmsLive = NewRdbms(LiveDB)
    /\ call = IdleCall
    /\ past = <<>>
    /\ last = NoLast
    /\ invs = <<>>
    /\ calc \in {[NoCalc EXCEPT !.Page = p, !.PageSize = s, !.total = t] :
                   p \in Pages, s \in PageSizes, t \in Totals}

CalcInput == [Page |-> calc.Page, PageSize |-> calc.PageSize]

ApplyOffset ==
    /\ calc.fn = "none"
    /\ calc' = [calc EXCEPT !.fn = "Offset", !.result = Offset(CalcInput)]
    /\ UNCHANGED <<rdbmsLive, call, past, last, invs>>

ApplyGetPageCount ==
    /\ calc.fn = "none"
    /\ calc' = [calc EXCEPT !.fn = "getPageCount",
                            !.result = getPageCount(calc.PageSize, calc.total)]
    /\ UNCHANGED <<rdbmsLive, call, past, last, invs>>

ApplyCreatePaginationOutput ==
    /\ calc.fn = "none"
    /\ calc' = [calc EXCEPT !.fn = "CreatePaginationOutput",
                            !.result = CreatePaginationOutput(CalcInput, calc.total)]
    /\ UNCHANGED <<rdbmsLive, call, past, last, invs>>

\* A paginated read of page CalcInput whose two queries succeed: what it put
\* on the row query and what it returned.
ApplyQuerySqPagination ==
    /\ calc.fn = "none"
    /\ LET in == [count |-> OkRow, rows |-> OkQuery, input |-> CalcInput,
                  total |-> calc.total]
           r == QuerySqPagination(rdbmsLive, FALSE, in)
       IN calc' = [calc EXCEPT !.fn = "QuerySqPagination",
                               !.result = [limit |-> r.limit, offset |-> r.offset,
                                           out |-> r.out]]
    /\ UNCHANGED <<rdbmsLive, call, past, last, invs>>

CalcNext ==
    \/ ApplyOffset
    \/ ApplyGetPageCount
    \/ ApplyCreatePaginationOutput
    \/ ApplyQuerySqPagination

SpecCalc == CalcInit /\ [][CalcNext]_vars

(***************************************************************************)
(* Properties                                                              *)
(***************************************************************************)
\* The invocation has left: returned, raised a panic, or its goroutine ended.
Left(c) == c.pc \in {"returned", "panicked", "exited"}
Resolutions(c) == c.tx.commits + c.tx.rollbacks

\* C1: every transaction an executor opened is resolved exactly once: while work
\* runs neither Commit nor Rollback has been called, and when control has left
\* the executor (work returned nil, returned an error, or panicked) exactly one
\* of them has been called, exactly once; without a transaction, none.
C1_ResolvedExactlyOnce ==
    /\ (Opened(call) /\ Left(call)) => Resolutions(call) = 1
    /\ call.pc = "work" => Resolutions(call) = 0
    /\ ~Opened(call) => Resolutions(call) = 0

C1_Witness ==
    /\ call.variant = "sqlxTransaction.DoTx" /\ call.pc = "panicked"
    /\ call.ans = errRollback /\ call.tx.rollbacks = 1 /\ call.tx.commits = 0

\* C2: if work returns nil and Commit succeeds, the executor has called Commit,
\* has not called Rollback, and returns nil.
C2_CommitOnSuccess ==
    (call.pc = "returned" /\ call.out = "return" /\ call.workErr = Nil /\ call.ans = Nil)
        => /\ call.tx.commits = 1
           /\ call.tx.rollbacks = 0
           /\ call.ret = Nil

C2_Witness ==
    /\ call.variant = "DoTx" /\ call.pc = "returned" /\ call.out = "return"
    /\ call.workErr = Nil /\ call.ans = Nil /\ call.tx.commits = 1

\* C3: if work returns a non-nil error and Rollback succeeds, the executor has
\* called Rollback, has not called Commit, and returns the very error work
\* returned.
C3_RollbackOnError ==
    (call.pc = "returned" /\ call.out = "return" /\ call.workErr # Nil /\ call.ans = Nil)
        => /\ call.tx.rollbacks = 1
           /\ call.tx.commits = 0
           /\ call.ret = call.workErr

C3_Witness ==
    /\ call.variant = "DoTxContext" /\ call.pc = "returned" /\ call.out = "return"
    /\ call.workErr = errBoom /\ call.ans = Nil /\ call.ret = errBoom

\* C4: if work returns a non-nil error and the Rollback that follows fails, the
\* chain of the returned error contains both work's error and the rollback
\* error, whichever executor ran.
C4_JoinsWorkAndRollbackError ==
    (call.pc = "returned" /\ call.out = "return" /\ call.workErr # Nil /\ call.ans # Nil)
        => /\ errorsIs(call.ret, call.workErr)
           /\ errorsIs(call.ret, call.ans)

\* C5: if work returns nil and Commit fails, the executor returns the commit
\* failure and does not call Rollback.
C5_CommitFailureReturned ==
    (call.pc = "returned" /\ call.out = "return" /\ call.workErr = Nil /\ call.ans # Nil)
        => /\ call.ret = call.ans
           /\ call.tx.commits = 1
           /\ call.tx.rollbacks = 0

C5_Witness ==
    /\ call.variant = "sqlxTransaction.DoTx" /\ call.pc = "returned"
    /\ call.out = "return" /\ call.workErr = Nil /\ call.ans = errCommit
    /\ call.ret = errCommit

\* C6: if work panics, the executor calls Rollback and raises the very value
\* work panicked with, whether Rollback succeeded or failed; it never returns
\* normally on this path.
C6_PanicReRaised ==
    call.out = "panic"
        => /\ call.pc = "panicked"
           /\ call.panicVal = call.workVal
           /\ call.workVal \in PanicVals
           /\ call.tx.rollbacks = 1
           /\ call.tx.commits = 0

C6_Witness ==
    /\ call.variant = "DoTx" /\ call.out = "panic" /\ call.workVal = "panicB"
    /\ call.ans = errRollback /\ call.pc = "panicked" /\ call.panicVal = "panicB"

\* C7: if opening the transaction fails, the executor returns the tagged open
\* error at once: work is never invoked, neither Commit nor Rollback is called,
\* and the span carries no commit/rollback annotation.
C7_OpenFailure ==
    (call.pc # "idle" /\ ~Opened(call))
        => /\ call.pc = "returned"
           /\ IsTagged(call.ret) /\ errorsIs(call.ret, errBegin)
           /\ call.works = 0
           /\ Resolutions(call) = 0
           /\ call.span.txOperation = "" /\ call.span.txStatus = ""
           /\ call.trace = <<"span.Start", "BeginTxx", "span.End">>

C7_Witness ==
    /\ call.variant = "DoTxContext" /\ call.pc = "returned" /\ ~Opened(call)
    /\ call.ret = errTracer(errBegin)

\* C8: every executor call made by an operation issued through the facade handed
\* to work goes to the transaction that invocation opened, never to the live
\* connection (and the live facade's calls go to the live connection).
C8_FacadeBoundToTx ==
    \A k \in DOMAIN last.r.calls : last.r.calls[k].on = last.via

C8_Witness ==
    /\ last.phase = "work" /\ last.r.op = "QuerySqPagination"
    /\ Len(last.r.calls) = 2 /\ last.via = Handle /\ call.variant = "DoTx"
    /\ \A k \in DOMAIN last.r.calls : last.r.calls[k].on = Handle

\* C9 (as claimed): no facade operation ever sends a statement to a transaction
\* that has already been committed or rolled back.
C9_NoQueryOnResolvedTx ==
    \A k \in DOMAIN last.r.calls : ~last.r.calls[k].done

\* C9 (amended): no operation that work issues while it runs, and none issued on
\* the live facade, sends a statement to a transaction the executor has already
\* committed or rolled back.  (A facade kept and used after the executor has
\* left does: nothing in the facade checks for it.)
C9_NoQueryOnResolvedTxWhileWorkRuns ==
    last.phase \in {"work", "live"} =>
        \A k \in DOMAIN last.r.calls : ~last.r.calls[k].done

C9_Witness ==
    /\ last.phase = "work" /\ last.via = Handle /\ call.pc = "work"
    /\ call.variant = "sqlxTransaction.DoTx" /\ last.r.op = "ExecSq"
    /\ Len(last.r.calls) = 1 /\ ~last.r.calls[1].done /\ last.r.res

\* C10: when a single-row read finds no row, the returned error is tagged and
\* its chain contains the ErrRecordNoRows sentinel.
C10_NoRowsSentinel ==
    (last.r.op = "QueryRowSq" /\ last.r.cause = ErrNoRows)
        => /\ IsTagged(last.r.err)
           /\ errorsIs(last.r.err, ErrRecordNoRows)

\* No error recorded on the span has the no-rows sentinel in its chain.
NoRowsUnrecorded(span) ==
    span.started => \A k \in DOMAIN span.errs : ~errorsIs(span.errs[k], ErrNoRows)

\* C11: the no-rows condition is never recorded as a span-level error: no span
\* of a facade operation or of a transactional executor records an error with
\* the no-rows sentinel in its chain; when a single-row read fails with no
\* rows, or work returns a no-rows error and the rollback succeeds, the span's
\* error record is empty and its status unset; any other execution or scan
\* failure of a single-row read is recorded and sets the error status.
C11_NoRowsNotRecorded ==
    /\ NoRowsUnrecorded(last.r.span) /\ NoRowsUnrecorded(last.r.countSpan)
    /\ NoRowsUnrecorded(call.span)
    /\ (last.r.op = "QueryRowSq" /\ last.r.calls # <<>>) =>
          IF last.r.cause = Nil \/ errorsIs(last.r.cause, ErrNoRows)
          THEN last.r.span.errs = <<>> /\ last.r.span.status = "Unset"
          ELSE last.r.span.errs = <<last.r.cause>> /\ last.r.span.status = "Error"
    /\ (last.r.op = "QuerySqPagination" /\ errorsIs(last.r.cause, ErrNoRows)) =>
          last.r.span.errs = <<>> /\ last.r.span.status = "Unset"
    /\ (Left(call) /\ Opened(call) /\ call.out = "return"
          /\ errorsIs(call.workErr, ErrNoRows) /\ call.ans = Nil) =>
          call.span.errs = <<>> /\ call.span.status = "Unset"

C11_Witness ==
    /\ last.r.op = "QueryRowSq" /\ last.in.scan = ErrNoRows /\ last.r.cause = ErrNoRows
    /\ last.r.span.started /\ last.r.span.ended = 1
    /\ last.r.span.errs = <<>> /\ last.r.span.status = "Unset"
    /\ call.variant = "DoTx" /\ Left(call) /\ call.workErr = errTracer(ErrNoRows)
    /\ call.span.errs = <<>>

\* The operation reached its executor and the executor answered without error.
ExecuteOk(l, answer) ==
    l.in.render = Nil /\ l.r.calls # <<>> /\ Answer(l.r.calls[1].done, answer) = Nil
ExecuteFailed(l, answer) ==
    l.in.render = Nil /\ l.r.calls # <<>> /\ Answer(l.r.calls[1].done, answer) # Nil

\* C12: in QuerySq the row handler is invoked only if the streaming read
\* succeeded; whenever it succeeded the result stream has been closed once
\* when QuerySq returns, also when the handler returned an error; a failure
\* of the close is recorded on the span (with the close attribute "failed")
\* and the error returned is the handler's error, unmodified.
C12_HandlerAndClose ==
    last.r.op = "QuerySq" =>
      /\ last.r.cbInvoked => ExecuteOk(last, last.in.exec)
      /\ ExecuteOk(last, last.in.exec) =>
            /\ last.r.cbInvoked /\ last.r.closes = 1
            /\ last.r.err = last.in.cb
            /\ last.r.span.ended = 1
            /\ IF last.in.close # Nil
               THEN last.r.span.errs = <<last.in.close>>
                    /\ last.r.span.closeRows = "failed"
               ELSE last.r.span.errs = <<>>
                    /\ last.r.span.closeRows = "successfully"
      /\ ~ExecuteOk(last, last.in.exec) =>
            ~last.r.cbInvoked /\ last.r.closes = 0

C12_Witness ==
    /\ last.r.op = "QuerySq" /\ ExecuteOk(last, last.in.exec)
    /\ last.in.cb = errCallback /\ last.in.close = errClose
    /\ last.r.cbInvoked /\ last.r.closes = 1
    /\ last.r.err = errCallback /\ last.r.span.errs = <<errClose>>

\* C13: when the execute call of QuerySq or ExecSq fails, the error returned
\* is tagged with call-site metadata and keeps the failure in its chain, the
\* failure is recorded on the operation's span, and a write returns no result.
C13_ExecuteFailureTagged ==
    (last.r.op \in {"QuerySq", "ExecSq"} /\ ExecuteFailed(last, last.in.exec)) =>
      /\ IsTagged(last.r.err)
      /\ errorsIs(last.r.err, last.r.cause)
      /\ last.r.span.errs = <<last.r.cause>> /\ last.r.span.status = "Error"
      /\ ~last.r.res

\* C14: when rendering the query descriptor fails, QuerySq, QueryRowSq and
\* ExecSq return the render error tagged with call-site metadata, and the
\* executor is never invoked: no call reaches it, no span is started, no row
\* handler runs and no result is returned.
C14_RenderFailure ==
    (last.r.op \in {"QuerySq", "QueryRowSq", "ExecSq"} /\ last.in.render # Nil) =>
      /\ last.r.err = errTracer(last.in.render)
      /\ last.r.calls = <<>>
      /\ ~last.r.span.started
      /\ ~last.r.cbInvoked /\ last.r.closes = 0 /\ ~last.r.res

C14_Witness ==
    /\ last.r.op = "ExecSq" /\ last.phase = "work" /\ last.in.render = errRender
    /\ last.r.err = errTracer(errRender) /\ last.r.calls = <<>>

\* The count query of the paginated read failed: it did not render, or its
\* single-row read answered an error.
CountFailed(l) ==
    \/ l.in.count.render # Nil
    \/ l.r.calls # <<>> /\ Answer(l.r.calls[1].done, l.in.count.scan) # Nil

\* The row query of the paginated read failed: it did not render, its
\* streaming read answered an error, or the row handler returned one.
RowsFailed(l) ==
    \/ l.in.rows.render # Nil
    \/ Len(l.r.calls) = 2 /\ Answer(l.r.calls[2].done, l.in.rows.exec) # Nil
    \/ l.in.rows.cb # Nil

\* C15: QuerySqPagination executes the count query before the row query; if
\* the count query fails the row query is never executed and the row handler
\* never invoked; if either query fails the operation returns a tagged error
\* that keeps the failure in its chain, with a zero-valued PaginationOutput.
C15_CountBeforeRows ==
    last.r.op = "QuerySqPagination" =>
      /\ Len(last.r.calls) <= 2
      /\ Len(last.r.calls) >= 1 => last.r.calls[1].method = "QueryRowxContext"
      /\ Len(last.r.calls) = 2 => last.r.calls[2].method = "QueryxContext"
      /\ CountFailed(last) =>
            /\ Len(last.r.calls) <= 1
            /\ ~last.r.cbInvoked /\ last.r.closes = 0
      /\ (CountFailed(last) \/ RowsFailed(last)) =>
            /\ last.r.err # Nil /\ IsTagged(last.r.err)
            /\ errorsIs(last.r.err, last.r.cause) /\ last.r.cause # Nil
            /\ last.r.out = ZeroOutput /\ ~last.r.res
      /\ last.r.err # Nil => (CountFailed(last) \/ RowsFailed(last))

C15_Witness ==
    /\ last.r.op = "QuerySqPagination" /\ last.phase = "live"
    /\ last.in.count.scan = errScan /\ CountFailed(last)
    /\ last.r.calls = <<ExecutorCall("QueryRowxContext", rdbmsLive, FALSE)>>
    /\ ~last.r.cbInvoked
    /\ last.r.err = errTracer(errTracer(errScan)) /\ last.r.out = ZeroOutput

\* n is the ceiling of total / size (size > 0): the least n with n * size >= total.
IsCeiling(n, total, size) == n * size >= total /\ (n - 1) * size < total

\* C16: for every pageSize > 0 and total row count >= 0 getPageCount returns 1
\* if the total is at most pageSize and the ceiling of total / pageSize
\* otherwise; for every pageSize <= 0 it returns 1.
C16_PageCount ==
    calc.fn = "getPageCount" =>
      IF calc.PageSize <= 0 THEN calc.result = 1
      ELSE IF calc.total <= calc.PageSize THEN calc.result = 1
      ELSE IsCeiling(calc.result, calc.total, calc.PageSize)

C16_Witness ==
    /\ calc.fn = "getPageCount" /\ calc.PageSize = 5 /\ calc.total = 13
    /\ calc.result = 3

C18_PaginationOutput ==
    (last.r.op = "QuerySqPagination" /\ last.r.res) =>
      /\ last.r.err = Nil
      /\ last.r.out.Page = last.in.input.Page
      /\ last.r.out.PageSize = last.in.input.PageSize
      /\ last.r.out.TotalData = last.in.total
      /\ IF last.in.input.PageSize <= 0 \/ last.in.total <= last.in.input.PageSize
         THEN last.r.out.PageCount = 1
         ELSE IsCeiling(last.r.out.PageCount, last.in.total, last.in.input.PageSize)
      /\ (last.in.input = [Page |-> 2, PageSize |-> 10] /\ last.in.total = 25) =>
            last.r.out = [Page |-> 2, PageSize |-> 10, TotalData |-> 25, PageCount |-> 3]
      /\ (last.in.input.PageSize = 100 /\ last.in.total = 7) =>
            last.r.out.PageCount = 1

C18_Witness ==
    /\ last.r.op = "QuerySqPagination" /\ last.r.res
    /\ last.in.input = [Page |-> 2, PageSize |-> 10] /\ last.in.total = 25
    /\ last.r.out = [Page |-> 2, PageSize |-> 10, TotalData |-> 25, PageCount |-> 3]

\* What work did in invocation c, as an outcome.
WorkOutcome(c) == [kind |-> c.out, err |-> c.workErr, val |-> c.workVal]

\* The invocation rdbms.DoTx makes of the same begin answer, the same work
\* outcome and the same Commit/Rollback answer as invocation c.
SameDoTx(c) ==
    IF Opened(c)
    THEN DoTxFinish(DoTxOpen(rdbmsLive, c.facade.queryExecutor, Nil), WorkOutcome(c), c.ans)
    ELSE DoTxOpen(rdbmsLive, Handle, c.ret.inner)

\* C19: DoTxContext behaves as DoTx does: for the same begin answer, work
\* outcome and Commit/Rollback answer it returns the same error or raises the
\* same panic, makes the same sequence of begin/commit/rollback calls, and
\* leaves the same span attributes and the same span error records.
C19_ContextVariantIdentical ==
    (call.variant = "DoTxContext" /\ Left(call)) =>
      call = [SameDoTx(call) EXCEPT !.variant = "DoTxContext"]

\* The positions of trace at which the span was ended.
SpanEnds(c) == {k \in DOMAIN c.trace : c.trace[k] = "span.End"}

\* C20: the transaction span is opened before the transaction begins and is
\* ended exactly once, after the transaction has been resolved, on every exit
\* path (open failure, commit, rollback after an error, rollback after a
\* panic): the span is started before BeginTxx, it is not ended while work
\* runs, and once the executor has left, the single span.End is its last step,
\* directly after the Commit or Rollback of an opened transaction.
C20_SpanLifecycle ==
    /\ call.pc # "idle" =>
          /\ call.span.started
          /\ Len(call.trace) >= 2
          /\ call.trace[1] = "span.Start" /\ call.trace[2] = "BeginTxx"
    /\ call.pc = "work" => call.span.ended = 0 /\ SpanEnds(call) = {}
    /\ Left(call) =>
          /\ call.span.ended = 1
          /\ SpanEnds(call) = {Len(call.trace)}
          /\ Opened(call) => /\ call.trace[Len(call.trace) - 1] \in {"Commit", "Rollback"}
                             /\ call.tx.state = "done"
          /\ ~Opened(call) => call.trace = <<"span.Start", "BeginTxx", "span.End">>

C20_Witness ==
    /\ call.variant = "DoTxContext" /\ call.pc = "panicked"
    /\ call.trace = <<"span.Start", "BeginTxx", "fn", "Rollback", "span.End">>
    /\ call.span.ended = 1

\* err is among the errors recorded on span.
Recorded(span, err) == \E k \in DOMAIN span.errs : span.errs[k] = err

\* C21: after every resolved transaction the span's annotations agree with
\* what happened: db.tx.operation is "commit" exactly when Commit was called
\* and "rollback" exactly when Rollback was called, db.tx.status says failed
\* exactly when that call failed, every Commit or Rollback failure is recorded
\* as a span error, and on the panic path the panic is recorded on the span.
C21_SpanAnnotationsAgree ==
    (Opened(call) /\ Left(call)) =>
      /\ call.span.txOperation = "commit" <=> call.tx.commits > 0
      /\ call.span.txOperation = "rollback" <=> call.tx.rollbacks > 0
      /\ call.span.txStatus =
           IF call.tx.commits > 0
           THEN IF call.ans # Nil THEN "commit failed" ELSE "commit successfully"
           ELSE IF call.ans # Nil THEN "rollback failed" ELSE "rollback successfully"
      /\ call.ans # Nil => Recorded(call.span, call.ans)
      /\ call.out = "panic" => Recorded(call.span, Base("panic occurred"))

\* C22: whenever the caller's context was cancelled after the transaction was
\* opened and before it was resolved, the executor has called Rollback on that
\* transaction when it leaves.
C22_CancelledRollsBack ==
    (Left(call) /\ Opened(call) /\ call.ctx = "cancelled") => call.tx.rollbacks = 1

\* C23: the transactional executors never change the facade they are called
\* on, and concurrent invocations share no mutable state: under every
\* interleaving the live facade stays as NewRdbms built it and its operations
\* execute on the live connection, the facade handed to a goroutine's work
\* executes on that goroutine's own transaction only, and each transaction is
\* committed exactly when its own work returned nil and rolled back otherwise.
C23_NoSharedMutableState ==
    /\ rdbmsLive = NewRdbms(LiveDB)
    /\ \A k \in DOMAIN last.r.calls :
         last.r.calls[k].on = IF last.via = 0 THEN LiveDB ELSE last.via
    /\ \A g \in DOMAIN invs :
         /\ invs[g].pc = "work" =>
              /\ Executor(invs[g].facade) = g
              /\ invs[g].tx = OpenTx
         /\ (Left(invs[g]) /\ Opened(invs[g])) =>
              IF invs[g].out = "return" /\ invs[g].workErr = Nil
              THEN invs[g].tx = TxCommit(OpenTx)
              ELSE invs[g].tx = TxRollback(OpenTx)

C23_Witness ==
    /\ invs[1].pc = "work" /\ invs[1].variant = "DoTx"
    /\ invs[2].pc = "work" /\ invs[2].variant = "DoTxContext"
    /\ last.via = 0 /\ last.r.calls = <<ExecutorCall("ExecContext", rdbmsLive, FALSE)>>
    /\ last.r.calls[1].on = LiveDB

\* C24: tagging preserves sentinel detection: for every error e and every
\* number of successive applications of errTracer, errors.Is finds the
\* "record not found" sentinel, and the driver's no-rows error, in the tagged
\* error exactly when it finds it in e; the error a paginated read returns
\* after an empty count read tags the single-row read's error once more and
\* the no-rows condition is still found in it.
C24_TaggingPreservesSentinels ==
    /\ calc.fn \in {"errTracer", "QuerySqPagination"} =>
         /\ IsTagged(calc.result)
         /\ \A s \in Sentinels : errorsIs(calc.result, s) <=> errorsIs(calc.err, s)
    /\ calc.fn = "QuerySqPagination" =>
         /\ calc.result = errTracer(calc.err) /\ IsTagged(calc.err)
         /\ errorsIs(calc.result, ErrNoRows)

C24_Witness ==
    /\ calc.fn = "errTracer" /\ calc.n = MaxTags
    /\ calc.err = errorsJoin(ErrNoRows, ErrRecordNoRows)
    /\ errorsIs(calc.result, ErrRecordNoRows) /\ errorsIs(calc.result, ErrNoRows)

\* How often step x occurs in an invocation's trace.
Attempts(c, x) == Cardinality({k \in DOMAIN c.trace : c.trace[k] = x})

\* C25: nothing is retried: within one invocation of a transactional executor
\* BeginTxx, work, Commit and Rollback are each attempted at most once, and
\* within one facade operation the executor is called at most once per query
\* (a paginated read: once for its count query, once for its row query),
\* whatever each attempt answered.
C25_NoRetries ==
    /\ call.pc # "idle" => Attempts(call, "BeginTxx") = 1
    /\ Attempts(call, "fn") <= 1 /\ call.works = Attempts(call, "fn")
    /\ Attempts(call, "Commit") <= 1 /\ call.tx.commits = Attempts(call, "Commit")
    /\ Attempts(call, "Rollback") <= 1 /\ call.tx.rollbacks = Attempts(call, "Rollback")
    /\ last.r.op \in {"QuerySq", "QueryRowSq", "ExecSq"} => Len(last.r.calls) <= 1
    /\ last.r.op = "QuerySqPagination" =>
         /\ Len(last.r.calls) <= 2
         /\ \A j, k \in DOMAIN last.r.calls :
              last.r.calls[j].method = last.r.calls[k].method => j = k

C25_Witness ==
    /\ Left(call) /\ call.out = "return" /\ call.workErr = Nil /\ call.ans = errCommit
    /\ Attempts(call, "Commit") = 1 /\ Attempts(call, "Rollback") = 0
    /\ last.r.op = "QueryRowSq" /\ last.in.scan = errScan /\ last.phase = "live"
    /\ Len(last.r.calls) = 1

\* C26: Commit is attempted only when work has returned normally with a nil
\* error: in every invocation where work panicked, ended without returning, or
\* returned a non-nil error, Commit is never called on the transaction.
C26_CommitOnlyAfterNilReturn ==
    call.tx.commits > 0 => (call.out = "return" /\ call.workErr = Nil)

\* C27: with the default span-naming function QuerySq, QueryRowSq and ExecSq
\* end by returning a result or an error and never by raising a fault, for
\* every rendered statement, the empty statement and statements shorter than
\* 15 bytes included.
C27_SpanNamingNeverFaults ==
    last.r.op \in {"QuerySq", "QueryRowSq", "ExecSq"} => ~last.r.fault

\* C28: for every pagination input the limit QuerySqPagination puts on the row
\* query equals pageSize and the offset equals (page - 1) * pageSize (0 for
\* page <= 0) as mathematical integers: neither is changed by the conversion
\* to unsigned 64-bit nor by overflow of the multiplication.
C28_LimitOffsetExact ==
    calc.fn = "QuerySqPagination" =>
      /\ calc.result.limit = calc.PageSize
      /\ calc.result.offset =
           IF calc.Page <= 0 THEN 0 ELSE (calc.Page - 1) * calc.PageSize

====
